---- MODULE Spec2Model ----
(***************************************************************************)
(* Model of covidsimulation/plot.py: the calendar-aligned Series class     *)
(* (construction with forward fill, get_index, trim) and the plot()        *)
(* function that classifies plot items, assigns colours and draws the     *)
(* confidence bands before the lines.                                      *)
(*                                                                         *)
(* Representation.  A datetime.date is its day number (an integer), so    *)
(* (a - b).days is a - b and d + timedelta(days=i) is d + i.  Python       *)
(* values whose type the code inspects carry a tag: None, an int, a date   *)
(* or an ISO string.  A call either returns a value or raises: Ok / Raise. *)
(***************************************************************************)
EXTENDS Integers, Sequences, FiniteSets, TLC

VARIABLES pc, cons, s, call, ret,
          ppc, pargs, k, area_fns, line_fns, ai, li, fig, perr

svars == <<pc, cons, s, call, ret>>
pvars == <<ppc, pargs, k, area_fns, line_fns, ai, li, fig, perr>>
vars == <<pc, cons, s, call, ret, ppc, pargs, k, area_fns, line_fns, ai, li, fig, perr>>

(***************************************************************************)
(* Bounds of the model.                                                    *)
(***************************************************************************)
MaxDay == 2      \* explicit dates and start dates are the days 0..MaxDay
MaxLen == 3      \* value and date sequences have at most MaxLen elements
MaxItems == 2    \* a plot call gets at most MaxItems plot items
MaxSeries == 5   \* holding at most MaxSeries series between them

Days == 0..MaxDay
QueryDays == -1..(MaxDay + 1)    \* dates asked of get_index / trim
Offsets == -1..MaxLen            \* raw integer offsets asked of get_index / trim
Values == {1, 2}                 \* the numbers a series may hold (0 is the fill default)

(***************************************************************************)
(* Python values.                                                          *)
(***************************************************************************)
None == [t |-> "None", v |-> 0]
PyInt(n) == [t |-> "int", v |-> n]
PyDate(d) == [t |-> "date", v |-> d]
PyStr(d) == [t |-> "str", v |-> d]     \* the ISO-8601 string of day d
PyList(q) == [t |-> "list", v |-> q]   \* a list, tuple or array of values

Ok(v) == [ok |-> TRUE, val |-> v, exc |-> "none"]
Raise(e) == [ok |-> FALSE, val |-> None, exc |-> e]

ValueErrorNoX == "ValueError: Either x or start_date must be specified"
ValueErrorElements == "ValueError: Invalid number of elements to plot"
ValueErrorStack == "ValueError: all input arrays must have the same shape"
AssertionError == "AssertionError"
IndexErrorList == "IndexError: list index out of range"
IndexErrorArray == "IndexError: index out of bounds"
AttributeErrorTrim == "AttributeError: 'numpy.float64' object has no attribute 'trim'"

Min(a, b) == IF a <= b THEN a ELSE b
Max(a, b) == IF a >= b THEN a ELSE b
SetMax(S) == CHOOSE m \in S : \A n \in S : n <= m
SetMin(S) == CHOOSE m \in S : \A n \in S : m <= n

Reverse(q) == [i \in 1..Len(q) |-> q[Len(q) + 1 - i]]

\* seq[a:b] with Python's slice rules: negative bounds count from the end,
\* bounds beyond either end are cut to it, an empty range gives the empty sequence.
PyBound(n, a) == IF a < 0 THEN Max(a + n, 0) ELSE Min(a, n)
PySlice(q, a, b) == SubSeq(q, PyBound(Len(q), a) + 1, PyBound(Len(q), b))

(***************************************************************************)
(* utils.get_date_from_isoformat: an ISO string gives its date, a date     *)
(* passes through.                                                         *)
(***************************************************************************)
get_date_from_isoformat(d) == IF d.t = "str" THEN PyDate(d.v) ELSE d

\* datetime.datetime(*x.timetuple()[:3]): midnight of the day.
to_datetime(d) == [day |-> d, hour |-> 0]

\* list(x) == sorted(list(x)) on the raw elements; ISO strings sort as their dates.
IsSorted(x) == \A i \in 1..(Len(x) - 1) : x[i].v <= x[i + 1].v

make_date_sequence(x) ==
    [i \in 1..Len(x) |->
        IF x[i].t = "str" THEN get_date_from_isoformat(x[i]) ELSE x[i]]

\* The dict built by zip(x, y): a later pair with the same date replaces the earlier.
map_x_to_y(x, y) ==
    [d \in {x[i].v : i \in 1..Len(x)} |->
        y[SetMax({i \in 1..Len(x) : x[i].v = d})]]

\* The loop of __init__ lines 46-48, over the days still to visit.
RECURSIVE ForwardFill(_, _, _)
ForwardFill(days, x_to_y, last) ==
    IF days = <<>> THEN <<>>
    ELSE LET now == IF Head(days) \in DOMAIN x_to_y THEN x_to_y[Head(days)] ELSE last
         IN <<now>> \o ForwardFill(Tail(days), x_to_y, now)

\* Lines 42-49: the values are densified only when the span has more days than
\* there are values; otherwise y is kept as passed.
NeedsFill(num_elements, y) == num_elements > Len(y)

\* Lines 41-54, once start_date and num_elements are known.
SeriesBuild(start, num_elements, y, x) ==
    LET dates == [i \in 1..num_elements |-> start + (i - 1)]
        made == [_x |-> dates,
                 x |-> [i \in 1..num_elements |-> to_datetime(dates[i])],
                 y |-> y]
    IN IF NeedsFill(num_elements, y)
       THEN IF Len(x) # Len(y) THEN Raise(AssertionError)
            ELSE Ok([made EXCEPT !.y = ForwardFill(dates, map_x_to_y(x, y), 0)])
       ELSE Ok(made)

\* Series.__init__(y, x, start_date).  x is None or a list of dates / ISO strings,
\* start_date is None, a date or an ISO string.  With a start date x is not read:
\* num_elements is len(y), so the fill of lines 42-49 is never entered.
SeriesInit(y, x, start_date) ==
    IF x = None /\ start_date = None THEN Raise(ValueErrorNoX)
    ELSE IF start_date = None
    THEN IF ~IsSorted(x.v) THEN Raise(AssertionError)
         ELSE LET xd == make_date_sequence(x.v)
              IN IF Len(xd) = 0 THEN Raise(IndexErrorList)
                 ELSE SeriesBuild(xd[1].v, (xd[Len(xd)].v - xd[1].v) + 1, y, xd)
    ELSE SeriesBuild(get_date_from_isoformat(start_date).v, Len(y), y, <<>>)

\* Series.__len__
SeriesLen(self) == Len(self.y)

\* Mutant of ClampIndex: the upper clamp is missing.
ClampIndexNoUpper(days, n) == Max(days, 0)

\* The clamp of line 71.
ClampIndex(days, n) == Min(Max(days, 0), n - 1)

\* Series.get_index: a date (or ISO string) is clamped into the dates of the
\* series, anything else is returned as it came.
get_index(self, x_value) ==
    LET xv == IF x_value.t = "str" THEN get_date_from_isoformat(x_value) ELSE x_value
    IN IF xv.t = "date"
       THEN IF Len(self._x) = 0 THEN Raise(IndexErrorArray)
            ELSE Ok(PyInt(ClampIndex(xv.v - self._x[1], Len(self._x))))
       ELSE Ok(xv)

\* Series.__getitem__
SeriesGetItem(self, item) ==
    LET i == get_index(self, item)
    IN IF ~i.ok THEN i
       ELSE IF i.val.v >= Len(self.y) \/ i.val.v < -Len(self.y) THEN Raise(IndexErrorArray)
       ELSE Ok(self.y[(i.val.v % Len(self.y)) + 1])

\* Mutant of get_stop_index: the stop is taken as exclusive (no + 1).
get_stop_index_exclusive(series, stop) ==
    IF stop = None THEN Ok(SeriesLen(series))
    ELSE LET i == get_index(series, stop)
         IN IF ~i.ok THEN i ELSE Ok(Min(i.val.v, SeriesLen(series)))

\* get_stop_index(series, stop)
get_stop_index(series, stop) ==
    IF stop = None THEN Ok(SeriesLen(series))
    ELSE LET i == get_index(series, stop)
         IN IF ~i.ok THEN i ELSE Ok(Min(i.val.v + 1, SeriesLen(series)))

\* "start or 0"
StartOrZero(start) == IF start = None \/ start = PyInt(0) THEN PyInt(0) ELSE start

\* Series.trim(start, stop)
trim(self, start, stop) ==
    LET start_index == get_index(self, StartOrZero(start))
        stop_index == get_stop_index(self, stop)
    IN IF ~start_index.ok THEN start_index
       ELSE IF ~stop_index.ok THEN stop_index
       ELSE LET xs == PySlice(self._x, start_index.val.v, stop_index.val)
            IN SeriesInit(PySlice(self.y, start_index.val.v, stop_index.val),
                          PyList([i \in 1..Len(xs) |-> PyDate(xs[i])]), None)

(***************************************************************************)
(* The Series half of the model: one constructor call, then one method     *)
(* call on the constructed object.                                         *)
(***************************************************************************)
SeqsOf(S, n) == UNION {[1..m -> S] : m \in 0..n}

\* Explicit dates come with one value per date.
ExplicitInputs ==
    UNION {{[y |-> y, x |-> PyList([i \in 1..m |-> PyDate(d[i])]), start_date |-> None] :
                y \in [1..m -> Values], d \in [1..m -> Days]} : m \in 0..MaxLen}

\* The same dates written as ISO strings, with the values 1, 2, 1, ...
IsoInputs ==
    UNION {{[y |-> [i \in 1..m |-> ((i - 1) % 2) + 1],
             x |-> PyList([i \in 1..m |-> PyStr(d[i])]), start_date |-> None] :
                d \in [1..m -> Days]} : m \in 1..MaxLen}

StartDateInputs ==
    {[y |-> y, x |-> None, start_date |-> sd] :
        y \in SeqsOf(Values, MaxLen), sd \in {PyDate(d) : d \in Days} \cup {PyStr(d) : d \in Days}}

ConstructInputs ==
    ExplicitInputs \cup IsoInputs \cup StartDateInputs
    \cup {[y |-> y, x |-> None, start_date |-> None] : y \in SeqsOf(Values, 1)}

IndexArgs ==
    {PyInt(n) : n \in Offsets} \cup {PyDate(d) : d \in QueryDays} \cup {PyStr(d) : d \in QueryDays}

\* start and stop of trim: None, an offset, a date, or the ISO string of the first
\* day or of a day past every series.
TrimArgs ==
    {None} \cup {PyInt(n) : n \in Offsets} \cup {PyDate(d) : d \in QueryDays}
    \cup {PyStr(0), PyStr(MaxDay + 1)}

NoCall == [name |-> "none", a |-> None, b |-> None]

InitSeries ==
    /\ pc = "new"
    /\ cons = [y |-> <<>>, x |-> None, start_date |-> None]
    /\ s = None
    /\ call = NoCall
    /\ ret = Ok(None)

\* s = Series(y, x, start_date)
Construct ==
    /\ pc = "new"
    /\ \E inp \in ConstructInputs :
          LET r == SeriesInit(inp.y, inp.x, inp.start_date)
          IN /\ cons' = inp
             /\ ret' = r
             /\ s' = IF r.ok THEN r.val ELSE None
             /\ pc' = IF r.ok THEN "ready" ELSE "failed"
    /\ UNCHANGED <<call>>
    /\ UNCHANGED pvars

\* s.get_index(x_value)
GetIndex ==
    /\ pc = "ready"
    /\ \E v \in IndexArgs :
          /\ call' = [name |-> "get_index", a |-> v, b |-> None]
          /\ ret' = get_index(s, v)
    /\ pc' = "returned"
    /\ UNCHANGED <<cons, s>>
    /\ UNCHANGED pvars

\* s.trim(start, stop)
Trim ==
    /\ pc = "ready"
    /\ \E start \in TrimArgs, stop \in TrimArgs :
          /\ call' = [name |-> "trim", a |-> start, b |-> stop]
          /\ ret' = trim(s, start, stop)
    /\ pc' = "returned"
    /\ UNCHANGED <<cons, s>>
    /\ UNCHANGED pvars

NextSeries == Construct \/ GetIndex \/ Trim
(***************************************************************************)
(* plot().  A plot item is (data, pop_name); data is a bare Series or a    *)
(* collection of Series.  The loop of lines 155-174 builds the deferred    *)
(* draw calls (trimming eagerly), lines 176-180 run the area calls and     *)
(* then the line calls, lines 182-191 set the layout.  The field "item" of *)
(* a draw call and of a trace is a ghost: the position of the plot item it *)
(* comes from.                                                             *)
(***************************************************************************)
PLOT_COLORS ==
    << <<"rgba(0,0,255,1)", "rgba(0,0,255,0.25)">>,
       <<"rgba(255,0,0,1)", "rgba(255,0,0,0.25)">>,
       <<"rgba(0,0,0,1)", "rgba(0,0,0,0.25)">>,
       <<"rgba(128,0,240,1)", "rgba(128,0,240,0.25)">>,
       <<"rgba(240,128,0,1)", "rgba(240,128,0,0.25)">>,
       <<"rgba(0,128,240,1)", "rgba(0,128,240,0.25)">>,
       <<"rgba(0,255,0,1)", "rgba(0,255,0,0.25)">> >>

PyName(n) == [t |-> "name", v |-> n]
PyFloat(n) == [t |-> "float", v |-> n]
PySeries(sr) == [t |-> "Series", v |-> sr]
PyBool(b) == [t |-> "bool", v |-> b]

\* q[i] on a Python list: negative indexes count from the end, others raise.
PyIndex(q, i) ==
    IF i >= Len(q) \/ i < -Len(q) THEN Raise(IndexErrorList)
    ELSE Ok(q[(i % Len(q)) + 1])

\* Lines 156-158: the colour index of the item at (0-based) position pos.
ColorIndex(pos, cindex) ==
    IF cindex # None THEN cindex.v ELSE pos % Len(PLOT_COLORS)

\* data[0], data[1], data[2]: on a collection its element, on a bare Series
\* Series.__getitem__, which gives a number of self.y.
Element(data, i) ==
    IF data.t = "Series"
    THEN LET r == SeriesGetItem(data.v, PyInt(i))
         IN IF r.ok THEN Ok(PyFloat(r.val)) ELSE r
    ELSE Ok(PySeries(data.v[i + 1]))

\* obj.trim(start, stop): only a Series has the method.
CallTrim(obj, start, stop) ==
    IF ~obj.ok THEN obj
    ELSE IF obj.val.t = "Series" THEN trim(obj.val.v, start, stop)
    ELSE Raise(AttributeErrorTrim)

LineFn(series, pop_name, color_index, item) ==
    [series |-> series, pop_name |-> pop_name, color_index |-> color_index, item |-> item]

AreaFn(series_low, series_high, legend, color_index, item) ==
    [series_low |-> series_low, series_high |-> series_high, legend |-> legend,
     color_index |-> color_index, item |-> item]

Deferred(areas, lines) == Ok([areas |-> areas, lines |-> lines])

\* Line 159: the item is drawn as one line.
IsSingle(data) == data.t = "Series" \/ Len(data.v) = 1

\* Mutant of IsTriple: any collection of three or more series is taken as a triple.
IsTripleOrMore(data) == Len(data.v) >= 3

\* Line 162.
IsTriple(data) == Len(data.v) = 3

\* Mutant of TripleBand: show_confidence_interval is not consulted.
TripleBandAlways(data, start, stop, show_confidence_interval, color_index, item) ==
    LET low == CallTrim(Element(data, 1), start, stop)
        high == CallTrim(Element(data, 2), start, stop)
    IN IF ~low.ok THEN low
       ELSE IF ~high.ok THEN high
       ELSE Ok(<<AreaFn(low.val, high.val, None, color_index, item)>>)

\* Lines 162-168: the band of a three-series item, when it is drawn at all.
TripleBand(data, start, stop, show_confidence_interval, color_index, item) ==
    IF ~show_confidence_interval THEN Ok(<<>>)
    ELSE LET low == CallTrim(Element(data, 1), start, stop)
             high == CallTrim(Element(data, 2), start, stop)
         IN IF ~low.ok THEN low
            ELSE IF ~high.ok THEN high
            ELSE Ok(<<AreaFn(low.val, high.val, None, color_index, item)>>)

\* Lines 169-172: the band of a two-series item.
PairBand(data, pop_name, start, stop, color_index, item) ==
    LET low == CallTrim(Element(data, 0), start, stop)
        high == CallTrim(Element(data, 1), start, stop)
    IN IF ~low.ok THEN low
       ELSE IF ~high.ok THEN high
       ELSE Ok(<<AreaFn(low.val, high.val, pop_name, color_index, item)>>)

\* One pass of the loop body, lines 156-174: the draw calls the item adds.
Classify(data, pop_name, item, a) ==
    LET color_index == ColorIndex(item - 1, a.cindex)
        line == CallTrim(Element(data, 0), a.start, a.stop)
    IN IF IsSingle(data)
       THEN IF ~line.ok THEN line
            ELSE Deferred(<<>>, <<LineFn(line.val, pop_name, color_index, item)>>)
       ELSE IF IsTriple(data)
       THEN LET band == TripleBand(data, a.start, a.stop, a.show_confidence_interval,
                                   color_index, item)
            IN IF ~band.ok THEN band
               ELSE IF ~line.ok THEN line
               ELSE Deferred(band.val, <<LineFn(line.val, pop_name, color_index, item)>>)
       ELSE IF Len(data.v) = 2
       THEN LET band == PairBand(data, pop_name, a.start, a.stop, color_index, item)
            IN IF ~band.ok THEN band ELSE Deferred(band.val, <<>>)
       ELSE Raise(ValueErrorElements)

\* plot_line: the Scatter trace added to the figure.
plot_line(fn) ==
    LET color == PyIndex(PLOT_COLORS, fn.color_index)
    IN IF ~color.ok THEN color
       ELSE Ok([kind |-> "line", x |-> fn.series.x, y |-> fn.series.y,
                line_color |-> color.val[1], name |-> fn.pop_name, item |-> fn.item])

\* concat_seq on two arrays: np.stack wants equal shapes, reshape lays the first
\* array before the second.  (Series.x and Series.y are always arrays.)
concat_seq(s1, s2) ==
    IF Len(s1) # Len(s2) THEN Raise(ValueErrorStack) ELSE Ok(s1 \o s2)

\* Mutant of BandY: the lower boundary is not reversed.
BandYNoReverse(fn) == concat_seq(fn.series_high.y, fn.series_low.y)

\* The polygon of a band, lines 130-131.
BandX(fn) == concat_seq(fn.series_high.x, Reverse(fn.series_low.x))
BandY(fn) == concat_seq(fn.series_high.y, Reverse(fn.series_low.y))

\* plot_confidence_range: the filled Scatter trace added to the figure.
plot_confidence_range(fn) ==
    IF Len(fn.series_low.x) # Len(fn.series_high.x) THEN Raise(AssertionError)
    ELSE LET x == BandX(fn)
             y == BandY(fn)
             color == PyIndex(PLOT_COLORS, fn.color_index)
         IN IF ~x.ok THEN x
            ELSE IF ~y.ok THEN y
            ELSE IF ~color.ok THEN color
            ELSE Ok([kind |-> "fill", x |-> x.val, y |-> y.val, fill |-> "toself",
                     fillcolor |-> color.val[2], line_color |-> color.val[2],
                     showlegend |-> fn.legend # None, name |-> fn.legend,
                     item |-> fn.item])

\* Lines 182-191.
Layout(n_items, title, log_scale, size, ymax) ==
    [title |-> title,
     yaxis_range |-> IF ymax # None /\ ymax.v # 0
                     THEN PyList(<<IF log_scale THEN 1 ELSE 0, ymax.v>>) ELSE None,
     yaxis_type |-> IF log_scale THEN PyName("log") ELSE None,
     width |-> IF size # None /\ size.v # 0 THEN size ELSE None,
     showlegend |-> IF n_items = 1 THEN PyBool(FALSE) ELSE None]

\* The series the plot items are made of: one built from a start date, and one
\* built from explicit dates of which one is repeated.
SeriesA == SeriesInit(<<1, 2>>, None, PyDate(0)).val
SeriesB == SeriesInit(<<4, 5, 6>>, PyList(<<PyDate(1), PyDate(1), PyDate(2)>>), None).val
Pool == {SeriesA, SeriesB}

\* Bare series, collections of one to three series, and the collections of no
\* and of four series (whose elements the code never reads).
PlotData ==
    {PySeries(p) : p \in Pool}
    \cup {PyList(c) : c \in UNION {[1..n -> Pool] : n \in 1..3}}
    \cup {PyList(<<>>), PyList(<<SeriesA, SeriesA, SeriesA, SeriesA>>)}

PopNames == <<"pop1", "pop2", "pop3", "pop4">>

\* The number of series a plot item holds.
RECURSIVE SeriesCount(_)
SeriesCount(datas) ==
    IF datas = <<>> THEN 0
    ELSE (IF Head(datas).t = "Series" THEN 1 ELSE Len(Head(datas).v))
         + SeriesCount(Tail(datas))

ItemLists ==
    UNION {{[i \in 1..n |-> [data |-> f[i], pop_name |-> PyName(PopNames[i])]] :
                f \in {g \in [1..n -> PlotData] : SeriesCount(g) <= MaxSeries}} :
           n \in 0..MaxItems}

\* (start, stop) of a plot call: untrimmed; cut to the first two days of each
\* series; started at day 1 (the series then differ in length); stop before start.
PlotTrims ==
    {<<None, None>>, <<None, PyInt(1)>>, <<PyStr(1), None>>, <<PyDate(2), PyDate(0)>>}

CIndexes == {None, PyInt(3), PyInt(Len(PLOT_COLORS))}

PlotArgs ==
    {[items |-> items, start |-> tr[1], stop |-> tr[2], cindex |-> cindex,
      show_confidence_interval |-> sci] :
        items \in ItemLists, tr \in PlotTrims, cindex \in CIndexes, sci \in BOOLEAN}

NoLayout == Layout(0, "", FALSE, None, None)

\* log_scale, size and ymax of a plot call.
LayoutArgs ==
    {[log_scale |-> FALSE, size |-> None, ymax |-> None],
     [log_scale |-> FALSE, size |-> PyInt(800), ymax |-> PyInt(50)],
     [log_scale |-> TRUE, size |-> None, ymax |-> PyInt(50)]}

NoArgs ==
    [items |-> <<>>, start |-> None, stop |-> None, cindex |-> None,
     show_confidence_interval |-> TRUE]

InitPlotIdle ==
    /\ ppc = "idle"
    /\ pargs = NoArgs
    /\ k = 0
    /\ area_fns = <<>>
    /\ line_fns = <<>>
    /\ ai = 0
    /\ li = 0
    /\ fig = [traces |-> <<>>, layout |-> NoLayout]
    /\ perr = "none"

\* plot(pop_stats_name_tuples, title, ...) is entered: lines 151-153.
PlotCall ==
    /\ ppc = "idle"
    /\ \E a \in PlotArgs : pargs' = a
    /\ ppc' = "running"
    /\ fig' = [traces |-> <<>>, layout |-> NoLayout]
    /\ k' = 0
    /\ area_fns' = <<>>
    /\ line_fns' = <<>>
    /\ ai' = 0
    /\ li' = 0
    /\ perr' = "none"
    /\ UNCHANGED svars

\* One iteration of the loop of lines 155-174.
LoopItem ==
    /\ ppc = "running"
    /\ k < Len(pargs.items)
    /\ LET it == pargs.items[k + 1]
           r == Classify(it.data, it.pop_name, k + 1, pargs)
       IN IF r.ok
          THEN /\ area_fns' = area_fns \o r.val.areas
               /\ line_fns' = line_fns \o r.val.lines
               /\ k' = k + 1
               /\ UNCHANGED <<ppc, perr>>
          ELSE /\ ppc' = "error"
               /\ perr' = r.exc
               /\ UNCHANGED <<k, area_fns, line_fns>>
    /\ UNCHANGED <<pargs, ai, li, fig>>
    /\ UNCHANGED svars

LoopDone == ppc = "running" /\ k = Len(pargs.items)

\* Mutant of AreasDone: the line calls do not wait for the area calls.
AreasNotAwaited == TRUE

\* Lines 176-180: the loop over line_fns starts when the loop over area_fns ended.
AreasDone == ai = Len(area_fns)

\* One iteration of the loop of lines 176-177.
RunArea ==
    /\ LoopDone
    /\ ai < Len(area_fns)
    /\ LET r == plot_confidence_range(area_fns[ai + 1])
       IN IF r.ok
          THEN /\ fig' = [fig EXCEPT !.traces = Append(@, r.val)]
               /\ ai' = ai + 1
               /\ UNCHANGED <<ppc, perr>>
          ELSE /\ ppc' = "error"
               /\ perr' = r.exc
               /\ UNCHANGED <<fig, ai>>
    /\ UNCHANGED <<pargs, k, area_fns, line_fns, li>>
    /\ UNCHANGED svars

\* One iteration of the loop of lines 179-180.
RunLine ==
    /\ LoopDone
    /\ AreasDone
    /\ li < Len(line_fns)
    /\ LET r == plot_line(line_fns[li + 1])
       IN IF r.ok
          THEN /\ fig' = [fig EXCEPT !.traces = Append(@, r.val)]
               /\ li' = li + 1
               /\ UNCHANGED <<ppc, perr>>
          ELSE /\ ppc' = "error"
               /\ perr' = r.exc
               /\ UNCHANGED <<fig, li>>
    /\ UNCHANGED <<pargs, k, area_fns, line_fns, ai>>
    /\ UNCHANGED svars

\* Lines 182-192: the layout is set and the figure returned.
Finalize ==
    /\ LoopDone
    /\ ai = Len(area_fns)
    /\ li = Len(line_fns)
    /\ \E o \in LayoutArgs :
          fig' = [fig EXCEPT !.layout =
                     Layout(Len(pargs.items), "title", o.log_scale, o.size, o.ymax)]
    /\ ppc' = "done"
    /\ UNCHANGED <<pargs, k, area_fns, line_fns, ai, li, perr>>
    /\ UNCHANGED svars

NextPlot == PlotCall \/ LoopItem \/ RunArea \/ RunLine \/ Finalize

Init == InitSeries /\ InitPlotIdle

\* One constructor call and one method call on a Series.
SpecSeries == Init /\ [][NextSeries]_vars

\* One call of plot.
SpecPlot == Init /\ [][NextPlot]_vars

(***************************************************************************)
(* Properties of the Series half.                                          *)
(***************************************************************************)
Constructed == pc \in {"ready", "returned"}
FromExplicit == Constructed /\ cons.start_date = None
Returned(name) == pc = "returned" /\ call.name = name

IsDateArg(a) == a.t \in {"date", "str"}
InputDays == {cons.x.v[j].v : j \in 1..Len(cons.x.v)}

\* As many values as dates, and each date one day after the one before it.
WellFormed(sr) ==
    /\ Len(sr.y) = Len(sr._x)
    /\ \A i \in 1..(Len(sr._x) - 1) : sr._x[i + 1] = sr._x[i] + 1

\* C2: every Series constructed from explicit dates that pass the sortedness check
\* (repeated dates included), or returned by trim, has as many values as dates,
\* consecutive dates, and length (max_date - min_date).days + 1.
C2_Invariant ==
    /\ FromExplicit =>
          /\ WellFormed(s)
          /\ Len(s._x) = (SetMax(InputDays) - SetMin(InputDays)) + 1
    /\ (Returned("trim") /\ ret.ok) => WellFormed(ret.val)

\* The input positions holding the latest input date at or before day d.
LatestAtOrBefore(d) ==
    LET known == {e \in InputDays : e <= d}
    IN {j \in 1..Len(cons.x.v) : cons.x.v[j].v = SetMax(known)}

\* C3: in a Series constructed from explicit sorted dates, the value stored for
\* every day of the span is the input value of the latest input date at or before
\* that day (with a repeated date, any of its input values is accepted here).
C3_ForwardFill ==
    FromExplicit =>
        \A i \in 1..Len(s._x) :
            /\ i <= Len(s.y)
            /\ s.y[i] \in {cons.y[j] : j \in LatestAtOrBefore(s._x[i])}

\* The offset a date resolves to, written from the claim: 0 before the first date,
\* the last offset after the last date, the distance from the first date between.
ClampedOffset(sr, d) ==
    IF d < sr._x[1] THEN 0
    ELSE IF d > sr._x[Len(sr._x)] THEN Len(sr._x) - 1
    ELSE d - sr._x[1]

\* C4 as claimed: on a Series of length n >= 1 get_index returns an integer in
\* [0, n-1] for a raw integer offset, an ISO string or a date, with dates before the
\* first date giving 0 and dates after the last date the last offset, and never raises.
C4_Original ==
    (Returned("get_index") /\ Len(s._x) >= 1) =>
        /\ ret.ok
        /\ ret.val.t = "int"
        /\ ret.val.v \in 0..(SeriesLen(s) - 1)
        /\ IsDateArg(call.a) => ret.val.v = ClampedOffset(s, call.a.v)

\* C4 amended: for a date or an ISO string get_index returns the clamped offset into
\* the dates of the series and never raises; a raw integer offset is returned
\* unchanged, out of range or not.
C4_Amended ==
    (Returned("get_index") /\ Len(s._x) >= 1) =>
        /\ ret.ok
        /\ IsDateArg(call.a) =>
              /\ ret.val = PyInt(ClampedOffset(s, call.a.v))
              /\ ret.val.v \in 0..(Len(s._x) - 1)
        /\ call.a.t = "int" => ret.val = call.a

C4_Witness ==
    /\ Returned("get_index")
    /\ IsDateArg(call.a)
    /\ Len(s._x) >= 2
    /\ call.a.v > s._x[Len(s._x)]
    /\ ret = Ok(PyInt(Len(s._x) - 1))

\* The offset an argument of trim resolves to, written from the claim.
Resolved(sr, a) == IF IsDateArg(a) THEN ClampedOffset(sr, a.v) ELSE a.v

\* An argument of trim that is None, a date, an ISO string, or an offset of the series.
IsOffsetOrDate(sr, a) ==
    a = None \/ IsDateArg(a) \/ (a.t = "int" /\ a.v \in 0..(Len(sr._x) - 1))

\* C5 as claimed: on a Series with n >= 1 dates and values, trim(start, stop)
\* returns, for any start and stop, the dates and values at positions i..j, with
\* i the resolved start (0 for None) and j the resolved stop cut to n-1 (n-1 for None).
\* (Integer offsets are taken within 0..n-1 here, the reading kindest to the claim.)
C5_Original ==
    (/\ Returned("trim") /\ WellFormed(s) /\ Len(s._x) >= 1
     /\ IsOffsetOrDate(s, call.a) /\ IsOffsetOrDate(s, call.b)) =>
        LET n == Len(s._x)
            i == IF call.a = None THEN 0 ELSE Resolved(s, call.a)
            j == IF call.b = None THEN n - 1 ELSE Min(Resolved(s, call.b), n - 1)
        IN /\ ret.ok
           /\ i >= 0
           /\ ret.val._x = SubSeq(s._x, i + 1, j + 1)
           /\ ret.val.y = SubSeq(s.y, i + 1, j + 1)

\* start and stop as the amended claim covers them: None, a date, an ISO string or
\* an integer offset that is not negative.
TrimCovered(a) == a = None \/ IsDateArg(a) \/ (a.t = "int" /\ a.v >= 0)

\* C5 amended: with i the resolved start (0 for None) and j the resolved stop (the
\* last position for None), trim returns a new Series holding the dates and the
\* values of s at positions i..j (j cut to the end) when i <= j, and raises when
\* that range is empty; s is as the constructor built it.
C5_Amended ==
    (Returned("trim") /\ Len(s._x) >= 1 /\ TrimCovered(call.a) /\ TrimCovered(call.b)) =>
        LET i == IF call.a = None THEN 0 ELSE Resolved(s, call.a)
            j == IF call.b = None THEN Len(s.y) - 1 ELSE Resolved(s, call.b)
            jx == Min(j, Len(s._x) - 1)
            jy == Min(j, Len(s.y) - 1)
        IN /\ s = SeriesInit(cons.y, cons.x, cons.start_date).val
           /\ IF i <= jx
              THEN /\ ret.ok
                   /\ ret.val._x = SubSeq(s._x, i + 1, jx + 1)
                   /\ ret.val.y = SubSeq(s.y, i + 1, jy + 1)
                   /\ ret.val.x = SubSeq(s.x, i + 1, jx + 1)
              ELSE ~ret.ok

C5_Witness ==
    /\ Returned("trim")
    /\ WellFormed(s)
    /\ Len(s._x) = 3
    /\ call.a = PyDate(s._x[2])
    /\ call.b = None
    /\ ret.ok
    /\ ret.val._x = SubSeq(s._x, 2, 3)
    /\ ret.val.y = SubSeq(s.y, 2, 3)
    /\ s.y[1] # s.y[2]
(***************************************************************************)
(* Properties of plot.                                                     *)
(***************************************************************************)
Items == pargs.items
Traces == fig.traces
TracesOf(kind, i) ==
    {n \in 1..Len(Traces) : Traces[n].kind = kind /\ Traces[n].item = i}

IsCollectionOf(data, n) == data.t = "list" /\ Len(data.v) = n

\* The series of item i at position p of its collection, trimmed as plot trims it.
Trimmed(i, p) == trim(Items[i].data.v[p], pargs.start, pargs.stop).val

\* C1: when plot completes, every fill trace comes before every line trace, and the
\* fill traces, and the line traces, come in the order of their items.
C1_DrawOrder ==
    ppc = "done" =>
        \A a \in 1..Len(Traces), b \in 1..Len(Traces) :
            a < b =>
                /\ ~(Traces[a].kind = "line" /\ Traces[b].kind = "fill")
                /\ Traces[a].kind = Traces[b].kind => Traces[a].item < Traces[b].item

C1_Witness ==
    /\ ppc = "done"
    /\ Len(Items) = 2
    /\ IsSingle(Items[1].data)
    /\ IsCollectionOf(Items[2].data, 3)
    /\ [n \in 1..Len(Traces) |-> <<Traces[n].kind, Traces[n].item>>]
          = << <<"fill", 2>>, <<"line", 1>>, <<"line", 2>> >>

\* The series a single-series item holds.
TheSeries(data) == IF data.t = "Series" THEN data.v ELSE data.v[1]

\* The palette entry of item i when the colour can be selected.
PaletteEntry(i) ==
    PLOT_COLORS[(IF pargs.cindex = None THEN (i - 1) % Len(PLOT_COLORS)
                 ELSE pargs.cindex.v % Len(PLOT_COLORS)) + 1]

\* C6: a single-series item, bare or a collection of one, gets exactly one line
\* trace (its series trimmed to [start, stop], its label, its colour) and no fill
\* trace; the loop does not fail on such an item when its series can be trimmed.
C6_SingleSeries ==
    \A i \in 1..Len(Items) :
        IsSingle(Items[i].data) =>
            LET sr == trim(TheSeries(Items[i].data), pargs.start, pargs.stop)
            IN /\ (ppc = "error" /\ k + 1 = i) => ~sr.ok
               /\ ppc = "done" =>
                     /\ TracesOf("fill", i) = {}
                     /\ Cardinality(TracesOf("line", i)) = 1
                     /\ \A n \in TracesOf("line", i) :
                           /\ Traces[n].x = sr.val.x
                           /\ Traces[n].y = sr.val.y
                           /\ Traces[n].name = Items[i].pop_name
                           /\ Traces[n].line_color = PaletteEntry(i)[1]

\* C7: every trace of the item at position i has the colour palette[i mod
\* len(palette)], or the palette entry of the override index when one is given, and
\* selecting the colour never raises.
C7_Colors ==
    /\ \A n \in 1..Len(Traces) :
          /\ Traces[n].line_color \in {PaletteEntry(Traces[n].item)[1],
                                       PaletteEntry(Traces[n].item)[2]}
          /\ Traces[n].kind = "line" =>
                Traces[n].line_color = PaletteEntry(Traces[n].item)[1]
          /\ Traces[n].kind = "fill" =>
                /\ Traces[n].line_color = PaletteEntry(Traces[n].item)[2]
                /\ Traces[n].fillcolor = PaletteEntry(Traces[n].item)[2]
    /\ ~(ppc = "error" /\ k = Len(Items) /\ perr = IndexErrorList)

InvalidItems ==
    {i \in 1..Len(Items) :
        Items[i].data.t = "list" /\ Len(Items[i].data.v) \notin {1, 2, 3}}

BareItems == {i \in 1..Len(Items) : Items[i].data.t = "Series"}

\* C8 as claimed: with an item of no, or of four or more, series, plot fails with
\* the configuration error, returns no figure and has emitted no trace.  (Stated
\* for calls without a bare Series item, whose failure is the subject of C6.)
C8_Original ==
    (InvalidItems # {} /\ BareItems = {}) =>
        /\ Traces = <<>>
        /\ ppc # "done"
        /\ ppc = "error" => perr = ValueErrorElements

\* C8 amended: with such an item plot fails in the loop over the items, at or
\* before the first such item, returns no figure and has emitted no trace; the
\* error is the configuration error exactly when the loop reached that item, and
\* otherwise the error of the earlier item that failed first.
C8_Amended ==
    InvalidItems # {} =>
        /\ Traces = <<>>
        /\ ai = 0 /\ li = 0
        /\ ppc \in {"running", "error"}
        /\ k + 1 <= SetMin(InvalidItems)
        /\ ppc = "error" => (perr = ValueErrorElements <=> k + 1 = SetMin(InvalidItems))

C8_Witness ==
    /\ ppc = "error"
    /\ perr = ValueErrorElements
    /\ k = 1
    /\ InvalidItems = {2}
    /\ IsCollectionOf(Items[2].data, 4)
    /\ Len(line_fns) = 1
    /\ Traces = <<>>

\* C9: when plot completes, a two-series item (lower, upper) has exactly one fill
\* trace, named with its label, and no line trace; a three-series item (central,
\* lower, upper) has exactly one line trace, of the central series and named with
\* its label, and exactly one fill trace of (lower, upper) with the legend
\* suppressed if show_confidence_interval, no fill trace otherwise.
C9_Classification ==
    ppc = "done" =>
        \A i \in 1..Len(Items) :
            /\ IsCollectionOf(Items[i].data, 2) =>
                  /\ TracesOf("line", i) = {}
                  /\ Cardinality(TracesOf("fill", i)) = 1
                  /\ \A n \in TracesOf("fill", i) :
                        /\ Traces[n].name = Items[i].pop_name
                        /\ Traces[n].showlegend
                        /\ Traces[n].y = Trimmed(i, 2).y \o Reverse(Trimmed(i, 1).y)
            /\ IsCollectionOf(Items[i].data, 3) =>
                  /\ Cardinality(TracesOf("line", i)) = 1
                  /\ \A n \in TracesOf("line", i) :
                        /\ Traces[n].name = Items[i].pop_name
                        /\ Traces[n].y = Trimmed(i, 1).y
                  /\ IF pargs.show_confidence_interval
                     THEN /\ Cardinality(TracesOf("fill", i)) = 1
                          /\ \A n \in TracesOf("fill", i) :
                                /\ Traces[n].name = None
                                /\ ~Traces[n].showlegend
                                /\ Traces[n].y = Trimmed(i, 3).y \o Reverse(Trimmed(i, 2).y)
                     ELSE TracesOf("fill", i) = {}

C9_Witness ==
    /\ ppc = "done"
    /\ Len(Items) = 2
    /\ IsCollectionOf(Items[1].data, 3)
    /\ IsCollectionOf(Items[2].data, 2)
    /\ pargs.show_confidence_interval
    /\ Items[2].data.v[1] # Items[2].data.v[2]
    /\ [n \in 1..Len(Traces) |-> <<Traces[n].kind, Traces[n].item>>]
          = << <<"fill", 1>>, <<"fill", 2>>, <<"line", 1>> >>

C10_WitnessMismatch ==
    /\ ppc = "error"
    /\ perr = AssertionError
    /\ ai < Len(area_fns)
    /\ Len(area_fns[ai + 1].series_low.x) # Len(area_fns[ai + 1].series_high.x)
====
